---------------------------- MODULE Spec2Model ----------------------------
(***************************************************************************)
(* Model of core/src/oauth/providers/notion.rs: the Notion implementation  *)
(* of the OAuth Provider trait (finalize, refresh, scrubbed_raw_json), the *)
(* lazily initialised client id / secret it authenticates with, and the    *)
(* calls a caller makes on one shared NotionConnectionProvider.            *)
(***************************************************************************)
EXTENDS Naturals, Sequences, FiniteSets, TLC

VARIABLES
    env,        \* process environment: a partial map variable name -> value
    provider,   \* the shared provider instance
    startupEnv, \* history: the environment as it was when new() returned
    idCell,     \* lazy static OAUTH_NOTION_CLIENT_ID
    secretCell, \* lazy static OAUTH_NOTION_CLIENT_SECRET
    calls       \* one record per call slot: the call in progress on it

vars == <<env, provider, startupEnv, idCell, secretCell, calls>>

(***************************************************************************)
(* Bounds.                                                                 *)
(***************************************************************************)
MaxCalls == 2
Slots == 1..MaxCalls

\* the authorization codes issued, each with the redirect URI it was issued to
Grants == {<<"abc123", "https://app/cb">>, <<"code_2", "https://app/cb2">>}
Credentials == {"no_credential", "cred_1"}
ClientIds == {"id_1", "id_2"}
ClientSecrets == {"secret_1"}
TransportErrors == {"NetworkError", "RequestFailed_401"}

(***************************************************************************)
(* Option<T> and Result<T, E>.                                             *)
(***************************************************************************)
None == [tag |-> "None"]
Some(x) == [tag |-> "Some", v |-> x]
Ok(x) == [tag |-> "Ok", val |-> x]
Err(e) == [tag |-> "Err", err |-> e]
\* a panic unwinding out of the call: the call returns nothing
Panic(m) == [tag |-> "Panic", msg |-> m]

(***************************************************************************)
(* serde_json::Value.  An object is a map from keys to values.             *)
(***************************************************************************)
Null == [t |-> "null"]
Bool(b) == [t |-> "bool", b |-> b]
Num(n) == [t |-> "num", n |-> n]
Str(s) == [t |-> "str", s |-> s]
Arr(a) == [t |-> "arr", a |-> a]
Obj(m) == [t |-> "obj", m |-> m]

IsObject(j) == j.t = "obj"
HasKey(j, k) == IsObject(j) /\ k \in DOMAIN j.m

\* Value's Index<&str>: the member of an object, Null for anything else
Index(j, k) == IF HasKey(j, k) THEN j.m[k] ELSE Null

\* Value::as_str
as_str(j) == IF j.t = "str" THEN Some(j.s) ELSE None

\* Map::remove
MapRemove(m, k) == [x \in DOMAIN m \ {k} |-> m[x]]

Keys == {"access_token", "refresh_token", "workspace_id"}
NestedToken == Obj([access_token |-> Str("tok_n")])
Leaves == {Str("tok_x"), Str("ref_x"), Str("w1"), Num(1), NestedToken}
JsonObjects == {Obj(m) : m \in UNION {[S -> Leaves] : S \in SUBSET Keys}}
NonObjects == {Null, Bool(TRUE), Num(1), Str("tok_x"), Arr(<<>>), Arr(<<Str("tok_x")>>)}
JsonValues == JsonObjects \cup NonObjects

\* what the vendor's token endpoint answers in the calls of Spec
Responses ==
    { Obj([access_token |-> Str("tok_x"), workspace_id |-> Str("w1")]),
      Obj([access_token |-> Str("tok_y"), refresh_token |-> Str("ref_x")]),
      Obj([workspace_id |-> Str("w1")]),
      Obj([access_token |-> Num(1)]),
      Arr(<<Str("tok_x")>>) }

\* the payloads scrubbed between the calls of Spec; SpecScrub scrubs all of
\* JsonValues
ScrubInputs ==
    { Obj([access_token |-> Str("tok_x"), workspace_id |-> Str("w1")]),
      Arr(<<Str("tok_x")>>) }

(***************************************************************************)
(* ProviderError.                                                          *)
(***************************************************************************)
ActionNotSupportedError(m) == [kind |-> "ActionNotSupportedError", msg |-> m]

\* anyhow!(msg): an untyped error carrying a message
anyhow(m) == [kind |-> "anyhow::Error", msg |-> m]

\* the ? operator on an anyhow::Error in a function returning ProviderError:
\* From<anyhow::Error> for ProviderError
FromAnyhow(e) == [kind |-> "InvalidResponseError", msg |-> e.msg]

\* Provider::handle_provider_request_error, the error-mapping hook
handle_provider_request_error(e) == [kind |-> "TransportError", msg |-> e]

(***************************************************************************)
(* lazy_static cells.                                                      *)
(***************************************************************************)
Uninit == [st |-> "uninit"]
Poisoned == [st |-> "poisoned"]
Initialized(v) == [st |-> "init", v |-> v]

\* env::var(name)
env_var(e, name) == IF name \in DOMAIN e THEN Ok(e[name]) ELSE Err("NotPresent")

\* the cell after a dereference: the first one runs env::var(name).unwrap()
\* under a Once; a panic inside it poisons the Once for good
DerefCell(cell, e, name) ==
    IF cell.st = "uninit"
    THEN IF env_var(e, name).tag = "Ok"
         THEN Initialized(env_var(e, name).val)
         ELSE Poisoned
    ELSE cell

ID == "OAUTH_NOTION_CLIENT_ID"
SECRET == "OAUTH_NOTION_CLIENT_SECRET"
Envs ==
    { e \in UNION {[S -> ClientIds \cup ClientSecrets] : S \in SUBSET {ID, SECRET}} :
        /\ ID \in DOMAIN e => e[ID] \in ClientIds
        /\ SECRET \in DOMAIN e => e[SECRET] \in ClientSecrets }

PanicMessage(cell) ==
    IF cell.st = "poisoned"
    THEN "Once instance has previously been poisoned"
    ELSE "called Result::unwrap() on an Err value: NotPresent"

(***************************************************************************)
(* NotionConnectionProvider.                                               *)
(***************************************************************************)
\* NotionConnectionProvider::new(): a struct without fields
new == "NotionConnectionProvider {}"

\* format! of id, a colon and secret; the STANDARD base64 engine encodes it
Format(id, secret) == <<id, ":", secret>>
Base64Encode(s) == [base64 |-> s]
basic_auth(id, secret) == Base64Encode(Format(id, secret))

\* the token request finalize builds (lines 48-60)
TokenRequest(code, redirect_uri, id, secret) ==
    [ method |-> "POST",
      url |-> "https://api.notion.com/v1/oauth/token",
      accept |-> "application/json",
      content_type |-> "application/json",
      authorization |-> <<"Basic ", basic_auth(id, secret)>>,
      body |-> Obj([grant_type |-> Str("authorization_code"),
                    code |-> Str(code),
                    redirect_uri |-> Str(redirect_uri)]) ]

FinalizeResult(redirect_uri, code, access_token, raw_json) ==
    [ redirect_uri |-> redirect_uri,
      code |-> code,
      access_token |-> access_token,
      access_token_expiry |-> None,
      refresh_token |-> None,
      raw_json |-> raw_json ]

\* mutant: the result's redirect_uri and code take each other's place
finalize_response_swapped(code, redirect_uri, raw_json) ==
    IF as_str(Index(raw_json, "access_token")).tag = "Some"
    THEN Ok(FinalizeResult(code, redirect_uri,
                           as_str(Index(raw_json, "access_token")).v, raw_json))
    ELSE Err(FromAnyhow(anyhow("Missing access_token in response from Notion")))

\* mutant: a missing access_token is a degraded success with an empty token
finalize_response_degraded(code, redirect_uri, raw_json) ==
    IF as_str(Index(raw_json, "access_token")).tag = "Some"
    THEN Ok(FinalizeResult(redirect_uri, code,
                           as_str(Index(raw_json, "access_token")).v, raw_json))
    ELSE Ok(FinalizeResult(redirect_uri, code, "", raw_json))

\* finalize once the exchange has answered with a parsed body (lines 66-78)
finalize_response(code, redirect_uri, raw_json) ==
    IF as_str(Index(raw_json, "access_token")).tag = "Some"
    THEN Ok(FinalizeResult(redirect_uri, code,
                           as_str(Index(raw_json, "access_token")).v, raw_json))
    ELSE Err(FromAnyhow(anyhow("Missing access_token in response from Notion")))

\* finalize from the point execute_request(..).await completes (lines 62-79);
\* outcome is Ok(json) or Err(transport error)
finalize_resume(code, redirect_uri, outcome) ==
    IF outcome.tag = "Err"
    THEN Err(handle_provider_request_error(outcome.err))
    ELSE finalize_response(code, redirect_uri, outcome.val)

\* mutant: refresh succeeds with a no-op
refresh_noop(connection, related_credentials) ==
    Ok([access_token |-> "", access_token_expiry |-> None,
        refresh_token |-> None, raw_json |-> Null])

\* refresh (lines 81-89): ? on a ProviderError is the identity conversion
refresh(connection, related_credentials) ==
    Err(ActionNotSupportedError("Notion access tokens do not expire"))

\* mutant: the access token is blanked, its key kept
scrubbed_raw_json_blanked(raw_json) ==
    IF IsObject(raw_json)
    THEN Ok(Obj([k \in DOMAIN raw_json.m |->
                   IF k = "access_token" THEN Str("") ELSE raw_json.m[k]]))
    ELSE Err(anyhow("Invalid raw_json, not an object"))

\* mutant: a value that is no object passes through
scrubbed_raw_json_lenient(raw_json) ==
    IF IsObject(raw_json)
    THEN Ok(Obj(MapRemove(raw_json.m, "access_token")))
    ELSE Ok(raw_json)

\* scrubbed_raw_json (lines 91-100): an anyhow::Result
scrubbed_raw_json(raw_json) ==
    IF IsObject(raw_json)
    THEN Ok(Obj(MapRemove(raw_json.m, "access_token")))
    ELSE Err(anyhow("Invalid raw_json, not an object"))

(***************************************************************************)
(* Calls.  A slot holds one call of one Connection (the slot's number) at  *)
(* a time, from the moment it is made until its caller has taken the       *)
(* result.                                                                 *)
(***************************************************************************)
Idle ==
    [ op |-> "idle", pc |-> "idle",
      code |-> "", redirect_uri |-> "",
      cred |-> "",                \* refresh: the related credential passed
      raw_json |-> Null,          \* scrub: the caller's value before the call
      raw_json_after |-> Null,    \* scrub: the caller's value after the call
      rescrub |-> FALSE,          \* scrub: the input is a scrub's output
      req |-> None,               \* the request handed to execute_request
      execCalls |-> 0,            \* execute_request calls this call has made
      outcome |-> None,           \* what execute_request answered
      result |-> None ]           \* what the call returned

Init ==
    /\ env \in Envs
    /\ provider = new
    /\ startupEnv = env
    /\ idCell = Uninit
    /\ secretCell = Uninit
    /\ calls = [c \in Slots |-> Idle]

\* the process environment changes (set_var / remove_var, an operator, a deploy)
ConfigChange(e) ==
    /\ e # env
    /\ env' = e
    /\ UNCHANGED <<provider, startupEnv, idCell, secretCell, calls>>

\* finalize up to its only suspension point, execute_request(..).await:
\* the body, basic_auth() (which dereferences both lazy statics, id first)
\* and the request.  _connection and _related_credentials are never read.
\* The step is taken as one: what it shares with other calls are the two
\* statics, each initialised under its own Once.
FinalizeCall(c, code, redirect_uri, cred) ==
    /\ calls[c].pc = "idle"
    /\ idCell' = DerefCell(idCell, env, ID)
    /\ secretCell' = IF idCell'.st = "init"
                     THEN DerefCell(secretCell, env, SECRET)
                     ELSE secretCell
    /\ calls' = [calls EXCEPT ![c] =
         IF idCell'.st # "init"
         THEN [Idle EXCEPT !.op = "finalize", !.pc = "done", !.code = code,
                 !.redirect_uri = redirect_uri,
                 !.result = Panic(PanicMessage(idCell))]
         ELSE IF secretCell'.st # "init"
         THEN [Idle EXCEPT !.op = "finalize", !.pc = "done", !.code = code,
                 !.redirect_uri = redirect_uri,
                 !.result = Panic(PanicMessage(secretCell))]
         ELSE [Idle EXCEPT !.op = "finalize", !.pc = "awaiting", !.code = code,
                 !.redirect_uri = redirect_uri,
                 !.req = Some(TokenRequest(code, redirect_uri,
                                           idCell'.v, secretCell'.v)),
                 !.execCalls = 1]]
    /\ UNCHANGED <<env, provider, startupEnv>>

\* mutant: on a transport error finalize issues the exchange once more
FinalizeResume_retry(c, outcome) ==
    /\ calls[c].op = "finalize"
    /\ calls[c].pc = "awaiting"
    /\ calls' = IF outcome.tag = "Err" /\ calls[c].execCalls < 2
                THEN [calls EXCEPT ![c].execCalls = calls[c].execCalls + 1]
                ELSE [calls EXCEPT ![c].pc = "done",
                                   ![c].outcome = outcome,
                                   ![c].result = finalize_resume(calls[c].code,
                                                    calls[c].redirect_uri, outcome)]
    /\ UNCHANGED <<env, provider, startupEnv, idCell, secretCell>>

\* mutant: code and redirect_uri are kept in one place for all calls, and
\* the result is built from the ones of the latest finalize in flight
FinalizeResume_shared(c, outcome) ==
    /\ calls[c].op = "finalize"
    /\ calls[c].pc = "awaiting"
    /\ LET inflight == {d \in Slots : calls[d].op = "finalize" /\ calls[d].pc = "awaiting"}
           last == CHOOSE d \in inflight : \A x \in inflight : x <= d
       IN calls' = [calls EXCEPT ![c].pc = "done",
                                 ![c].outcome = outcome,
                                 ![c].result = finalize_resume(calls[last].code,
                                                  calls[last].redirect_uri, outcome)]
    /\ UNCHANGED <<env, provider, startupEnv, idCell, secretCell>>

\* execute_request answers and finalize runs to its end
FinalizeResume(c, outcome) ==
    /\ calls[c].op = "finalize"
    /\ calls[c].pc = "awaiting"
    /\ calls' = [calls EXCEPT ![c].pc = "done",
                              ![c].outcome = outcome,
                              ![c].result = finalize_resume(calls[c].code,
                                               calls[c].redirect_uri, outcome)]
    /\ UNCHANGED <<env, provider, startupEnv, idCell, secretCell>>

\* refresh has no suspension point
RefreshCall(c, cred) ==
    /\ calls[c].pc = "idle"
    /\ calls' = [calls EXCEPT ![c] =
         [Idle EXCEPT !.op = "refresh", !.pc = "done", !.cred = cred,
                      !.result = refresh(c, cred)]]
    /\ UNCHANGED <<env, provider, startupEnv, idCell, secretCell>>

\* mutant: the key is removed from the caller's map, not from a clone
ScrubbedCall_inplace(raw_json, rescrub) ==
    [Idle EXCEPT !.op = "scrub", !.pc = "done", !.raw_json = raw_json,
                 !.raw_json_after = IF scrubbed_raw_json(raw_json).tag = "Ok"
                                    THEN scrubbed_raw_json(raw_json).val
                                    ELSE raw_json,
                 !.rescrub = rescrub,
                 !.result = scrubbed_raw_json(raw_json)]

\* scrubbed_raw_json(&raw_json): the match consumes a clone (line 92), the
\* caller's value is only borrowed and stays as it was
ScrubbedCall(raw_json, rescrub) ==
    [Idle EXCEPT !.op = "scrub", !.pc = "done", !.raw_json = raw_json,
                 !.raw_json_after = raw_json, !.rescrub = rescrub,
                 !.result = scrubbed_raw_json(raw_json)]

ScrubCall(c, raw_json) ==
    /\ calls[c].pc = "idle"
    /\ calls' = [calls EXCEPT ![c] = ScrubbedCall(raw_json, FALSE)]
    /\ UNCHANGED <<env, provider, startupEnv, idCell, secretCell>>

\* the caller scrubs once more the payload a scrub returned
Rescrub(c) ==
    /\ calls[c].op = "scrub"
    /\ calls[c].pc = "done"
    /\ ~calls[c].rescrub
    /\ calls[c].result.tag = "Ok"
    /\ calls' = [calls EXCEPT ![c] = ScrubbedCall(calls[c].result.val, TRUE)]
    /\ UNCHANGED <<env, provider, startupEnv, idCell, secretCell>>

\* the caller takes the result (or the panic is caught): the slot is free again
Return(c) ==
    /\ calls[c].pc = "done"
    /\ calls' = [calls EXCEPT ![c] = Idle]
    /\ UNCHANGED <<env, provider, startupEnv, idCell, secretCell>>

ExecutorOutcomes == {Ok(j) : j \in Responses} \cup {Err(e) : e \in TransportErrors}

Next ==
    \/ \E e \in Envs : ConfigChange(e)
    \/ \E c \in Slots, g \in Grants, cred \in Credentials :
          FinalizeCall(c, g[1], g[2], cred)
    \/ \E c \in Slots, o \in ExecutorOutcomes : FinalizeResume(c, o)
    \/ \E c \in Slots, cred \in Credentials : RefreshCall(c, cred)
    \/ \E c \in Slots, j \in ScrubInputs : ScrubCall(c, j)
    \/ \E c \in Slots : Return(c)

Spec == Init /\ [][Next]_vars

(***************************************************************************)
(* scrubbed_raw_json as a function: every JSON value of JsonValues is      *)
(* scrubbed, and every scrubbed payload is scrubbed again.                 *)
(***************************************************************************)
NextScrub ==
    \/ \E j \in JsonValues : ScrubCall(1, j)
    \/ Rescrub(1)
    \/ Return(1)

SpecScrub == Init /\ [][NextScrub]_vars

(***************************************************************************)
(* Properties.                                                             *)
(***************************************************************************)
Finalized(c) == calls[c].op = "finalize" /\ calls[c].pc = "done"
Returned(c) == calls[c].result.tag \in {"Ok", "Err"}
Exchanged(c) == Finalized(c) /\ calls[c].outcome.tag = "Ok"
Scrubbed(c) == calls[c].op = "scrub" /\ calls[c].pc = "done"

\* C1: when the exchange answers a body whose access_token is the string T,
\* finalize returns Ok with access_token = T, the call's own code and
\* redirect_uri unchanged, no expiry and no refresh token.
C1_FinalizeSuccess ==
    \A c \in Slots :
        (Exchanged(c) /\ Index(calls[c].outcome.val, "access_token").t = "str") =>
            /\ calls[c].result.tag = "Ok"
            /\ calls[c].result.val.access_token
                  = Index(calls[c].outcome.val, "access_token").s
            /\ calls[c].result.val.code = calls[c].code
            /\ calls[c].result.val.redirect_uri = calls[c].redirect_uri
            /\ calls[c].result.val.access_token_expiry = None
            /\ calls[c].result.val.refresh_token = None

\* C1 witness: the end-to-end scenario of the specification, a response
\* without refresh_token
C1_Witness ==
    \E c \in Slots :
        /\ Exchanged(c)
        /\ calls[c].code = "abc123"
        /\ calls[c].redirect_uri = "https://app/cb"
        /\ calls[c].outcome.val
              = Obj([access_token |-> Str("tok_x"), workspace_id |-> Str("w1")])
        /\ calls[c].result.tag = "Ok"
        /\ calls[c].result.val.access_token = "tok_x"

C3_RefreshNotSupported ==
    \A c \in Slots :
        calls[c].op = "refresh" =>
            /\ calls[c].pc = "done"
            /\ calls[c].result.tag = "Err"
            /\ calls[c].result.err.kind = "ActionNotSupportedError"
            /\ calls[c].result.err.msg # ""
            /\ calls[c].execCalls = 0
            /\ calls[c].req = None
            /\ calls[c].outcome = None

\* C3 witness: a refresh with a credential, made after a finalize has run
\* on the other connection
C3_Witness ==
    \E c, d \in Slots :
        /\ calls[c].op = "refresh"
        /\ calls[c].cred = "cred_1"
        /\ c # d
        /\ Finalized(d)

\* C7: a finalize that returns has called the executor exactly once, no
\* finalize ever calls it twice, and on a transport error the result is what
\* the error-mapping hook made of it.  (A finalize that panics in
\* basic_auth returns nothing and has not reached the executor.)
C7_OneExchange ==
    \A c \in Slots :
        calls[c].op = "finalize" =>
            /\ calls[c].execCalls <= 1
            /\ calls[c].pc = "awaiting" => calls[c].execCalls = 1
            /\ Returned(c) => calls[c].execCalls = 1
            /\ (calls[c].pc = "done" /\ calls[c].outcome.tag = "Err") =>
                  calls[c].result
                     = Err(handle_provider_request_error(calls[c].outcome.err))

\* C7 witness: a finalize whose exchange failed in transport
C7_Witness ==
    \E c \in Slots :
        /\ Finalized(c)
        /\ calls[c].outcome = Err("NetworkError")
        /\ calls[c].result.tag = "Err"
        /\ calls[c].execCalls = 1

\* C8: every finalize is served with the client id and secret the
\* configuration held at startup: none panics on a missing one, and the
\* Authorization header is built from the startup values.
C8_ConfigReadAtStartup ==
    \A c \in Slots :
        calls[c].op = "finalize" =>
            /\ ID \in DOMAIN startupEnv
            /\ SECRET \in DOMAIN startupEnv
            /\ calls[c].result.tag # "Panic"
            /\ calls[c].req # None =>
                  calls[c].req.v.authorization
                     = <<"Basic ", basic_auth(startupEnv[ID], startupEnv[SECRET])>>

\* C9: whatever the other slot does, a call's result is the one its own
\* arguments and its own vendor response give, it carries its own code,
\* redirect_uri and access_token, and the provider instance stays as built.
C9_CallsIndependent ==
    /\ provider = new
    /\ \A c \in Slots :
          /\ (Finalized(c) /\ Returned(c)) =>
                calls[c].result
                   = finalize_resume(calls[c].code, calls[c].redirect_uri,
                                     calls[c].outcome)
          /\ (Finalized(c) /\ calls[c].result.tag = "Ok") =>
                /\ calls[c].result.val.code = calls[c].code
                /\ calls[c].result.val.redirect_uri = calls[c].redirect_uri
                /\ Str(calls[c].result.val.access_token)
                      = Index(calls[c].outcome.val, "access_token")
                /\ calls[c].result.val.raw_json = calls[c].outcome.val
          /\ calls[c].op = "refresh" => calls[c].result = refresh(c, calls[c].cred)

\* C9 witness: one call has returned while another, with another code and
\* redirect_uri, is still waiting for its exchange
C9_Witness ==
    \E c, d \in Slots :
        /\ Finalized(c)
        /\ calls[c].result.tag = "Ok"
        /\ calls[d].op = "finalize"
        /\ calls[d].pc = "awaiting"
        /\ calls[d].code # calls[c].code
        /\ calls[d].redirect_uri # calls[c].redirect_uri

\* the name the specification gives the error of line 97
MalformedPayloadError == anyhow("Invalid raw_json, not an object")

\* a key under which a vendor sends token material
TokenKeys == {"access_token", "refresh_token"}

\* a JSON value holds a token field, at the top or inside a member
RECURSIVE HoldsTokenField(_)
HoldsTokenField(j) ==
    /\ IsObject(j)
    /\ \/ DOMAIN j.m \cap TokenKeys # {}
       \/ \E k \in DOMAIN j.m : HoldsTokenField(j.m[k])

\* C4: scrubbing an object succeeds, the payload has no access_token key,
\* and scrubbing a scrubbed payload returns it as it is.
C4_ScrubIdempotent ==
    \A c \in Slots :
        (Scrubbed(c) /\ IsObject(calls[c].raw_json)) =>
            /\ calls[c].result.tag = "Ok"
            /\ IsObject(calls[c].result.val)
            /\ ~HasKey(calls[c].result.val, "access_token")
            /\ calls[c].rescrub => calls[c].result.val = calls[c].raw_json

\* C4 witness: a scrubbed payload, with members left, scrubbed again
C4_Witness ==
    \E c \in Slots :
        /\ Scrubbed(c)
        /\ calls[c].rescrub
        /\ HasKey(calls[c].raw_json, "workspace_id")
        /\ calls[c].result = Ok(calls[c].raw_json)

\* C5: scrubbing a value that is no object fails with the malformed payload
\* error, returns no payload and leaves the caller's value as it was.
C5_ScrubNonObject ==
    \A c \in Slots :
        (Scrubbed(c) /\ ~IsObject(calls[c].raw_json)) =>
            /\ calls[c].result.tag = "Err"
            /\ calls[c].result.err = MalformedPayloadError
            /\ calls[c].raw_json_after = calls[c].raw_json

\* C5 witness: an array was scrubbed
C5_Witness ==
    \E c \in Slots :
        /\ Scrubbed(c)
        /\ calls[c].raw_json = Arr(<<Str("tok_x")>>)
        /\ calls[c].result.tag = "Err"

\* C6: a scrubbed payload holds no token field: neither access_token nor
\* refresh_token, neither at the top nor nested in a member.
C6_NoTokenMaterial ==
    \A c \in Slots :
        (Scrubbed(c) /\ calls[c].result.tag = "Ok") =>
            ~HoldsTokenField(calls[c].result.val)

\* C10: scrubbing an object returns the object without its top-level
\* access_token: the other keys with their values, no key more, and the
\* caller's object is as it was.
C10_ScrubRemovesOnlyAccessToken ==
    \A c \in Slots :
        (Scrubbed(c) /\ IsObject(calls[c].raw_json)) =>
            /\ calls[c].result.tag = "Ok"
            /\ IsObject(calls[c].result.val)
            /\ DOMAIN calls[c].result.val.m
                  = DOMAIN calls[c].raw_json.m \ {"access_token"}
            /\ \A k \in DOMAIN calls[c].result.val.m :
                  calls[c].result.val.m[k] = calls[c].raw_json.m[k]
            /\ calls[c].raw_json_after = calls[c].raw_json

\* C10 witness: the example of the specification
C10_Witness ==
    \E c \in Slots :
        /\ Scrubbed(c)
        /\ calls[c].raw_json
              = Obj([access_token |-> Str("tok_x"), workspace_id |-> Str("w1")])
        /\ calls[c].result = Ok(Obj([workspace_id |-> Str("w1")]))
        /\ calls[c].raw_json_after = calls[c].raw_json

=============================================================================
